---- MODULE Spec2Model ----
(***************************************************************************)
(* Voice-detection service: the /api/voice-detection endpoint (main.py),   *)
(* the audio helpers (utils.py) and the LLM-backed Detector (detector.py). *)
(*                                                                         *)
(* Text is modelled as a sequence of one-character strings, bytes as       *)
(* integers 0..255 and confidence scores as hundredths (87 is 0.87).       *)
(***************************************************************************)
EXTENDS Integers, Sequences, FiniteSets, TLC

(***************************************************************************)
(* Bounds of the model.                                                    *)
(***************************************************************************)
\* An audioBase64 input of the decoder specification is a concatenation of
\* at most MaxParts pieces of Pieces.
MaxParts == 3

(***************************************************************************)
(* Text helpers: str.lower, the `in` test and str.split.                   *)
(***************************************************************************)
UpperCase == <<"A","B","C","D","E","F","G","H","I","J","K","L","M",
               "N","O","P","Q","R","S","T","U","V","W","X","Y","Z">>

LowerCase == <<"a","b","c","d","e","f","g","h","i","j","k","l","m",
               "n","o","p","q","r","s","t","u","v","w","x","y","z">>

Digits == <<"0","1","2","3","4","5","6","7","8","9">>

\* str.lower on one character, then on a string.
LowerChar(c) ==
    IF \E i \in 1..26 : UpperCase[i] = c
    THEN LowerCase[CHOOSE i \in 1..26 : UpperCase[i] = c]
    ELSE c

Lower(s) == [i \in 1..Len(s) |-> LowerChar(s[i])]

\* sep occurs in s at index i.
OccursAt(s, sep, i) ==
    /\ i >= 1
    /\ i + Len(sep) - 1 <= Len(s)
    /\ SubSeq(s, i, i + Len(sep) - 1) = sep

\* `sep in s`.
Contains(s, sep) == \E i \in 1..Len(s) : OccursAt(s, sep, i)

\* Index of the first occurrence of sep in s (0 when there is none).
FirstIndex(s, sep) ==
    IF Contains(s, sep)
    THEN CHOOSE i \in 1..Len(s) :
            /\ OccursAt(s, sep, i)
            /\ \A j \in 1..(i - 1) : ~OccursAt(s, sep, j)
    ELSE 0

\* s.split(sep): the pieces between the non-overlapping occurrences of sep,
\* scanned from the left.
RECURSIVE Split(_, _)
Split(s, sep) ==
    LET i == FirstIndex(s, sep) IN
    IF i = 0
    THEN <<s>>
    ELSE <<SubSeq(s, 1, i - 1)>> \o Split(SubSeq(s, i + Len(sep), Len(s)), sep)

(***************************************************************************)
(* base64.b64decode(s) with its default validate=False: characters outside *)
(* the alphabet are skipped, a complete pad run ends the decoding, and a   *)
(* dangling group at the end of the input is an error.                     *)
(***************************************************************************)
B64Alphabet == UpperCase \o LowerCase \o Digits \o <<"+", "/">>

B64Pad == "="

IsB64Char(c) == \E i \in 1..64 : B64Alphabet[i] = c

B64Val(c) == (CHOOSE i \in 1..64 : B64Alphabet[i] = c) - 1

\* One step per input character; quad is the position in the current group
\* of four, left the bits carried over, pads the pad characters seen in a row.
RECURSIVE B64Scan(_, _, _, _, _, _)
B64Scan(s, i, quad, left, pads, out) ==
    IF i > Len(s)
    THEN IF quad = 0
         THEN [ok |-> TRUE, bytes |-> out, cause |-> <<>>]
         ELSE [ok |-> FALSE, bytes |-> <<>>,
               cause |-> IF quad = 1 THEN <<"Invalid base64-encoded string">>
                                     ELSE <<"Incorrect padding">>]
    ELSE
      LET c == s[i] IN
      IF c = B64Pad
      THEN IF quad >= 2 /\ quad + pads + 1 >= 4
           THEN [ok |-> TRUE, bytes |-> out, cause |-> <<>>]
           ELSE B64Scan(s, i + 1, quad, left,
                        IF quad >= 2 THEN pads + 1 ELSE pads, out)
      ELSE IF ~IsB64Char(c)
      THEN B64Scan(s, i + 1, quad, left, pads, out)
      ELSE
        LET v == B64Val(c) IN
        CASE quad = 0 -> B64Scan(s, i + 1, 1, v, 0, out)
          [] quad = 1 -> B64Scan(s, i + 1, 2, v % 16, 0,
                                 Append(out, (left * 4 + v \div 16) % 256))
          [] quad = 2 -> B64Scan(s, i + 1, 3, v % 4, 0,
                                 Append(out, (left * 16 + v \div 4) % 256))
          [] OTHER    -> B64Scan(s, i + 1, 0, 0, 0,
                                 Append(out, (left * 64 + v) % 256))

b64decode(s) == B64Scan(s, 1, 0, 0, 0, <<>>)

(***************************************************************************)
(* utils.decode_audio                                                      *)
(***************************************************************************)
Base64Marker == <<"b","a","s","e","6","4",",">>

\* Messages are sequences of text fragments (the pieces of an f-string).
DecodePrefix == <<"Invalid Base64 audio data: ">>

\* The string handed to b64decode: element [1] of the split when the marker
\* is present, the input itself otherwise.
StripHeader(base64_string) ==
    IF Contains(base64_string, Base64Marker)
    THEN Split(base64_string, Base64Marker)[2]
    ELSE base64_string

\* Result of decode_audio: the bytes, or the ValueError it raises.
decode_audio(base64_string) ==
    LET r == b64decode(StripHeader(base64_string)) IN
    IF r.ok
    THEN [ok |-> TRUE, bytes |-> r.bytes, error |-> <<>>]
    ELSE [ok |-> FALSE, bytes |-> <<>>, error |-> DecodePrefix \o r.cause]

(***************************************************************************)
(* utils.trim_audio: the clip is cut to max_duration_ms and re-encoded.    *)
(* The MP3 container is opaque here: a clip is represented by its length   *)
(* in milliseconds.                                                        *)
(***************************************************************************)
max_duration_ms == 30000

TrimPrefix == <<"Error trimming audio: ">>

\* len(audio) > max_duration_ms  =>  audio[:max_duration_ms]
TrimmedLength(ms) == IF ms > max_duration_ms THEN max_duration_ms ELSE ms

(***************************************************************************)
(* LLM replies.  A reply is a transport/API error or a message content; a  *)
(* content is a sequence of tokens: a Markdown fence line, a JSON object,  *)
(* a JSON array, or text that is not JSON.                                 *)
(***************************************************************************)
Absent == [ty |-> "absent", b |-> FALSE, n |-> 0, s |-> ""]

Null == [ty |-> "null", b |-> FALSE, n |-> 0, s |-> ""]

Bool(x) == [ty |-> "bool", b |-> x, n |-> 0, s |-> ""]

Number(x) == [ty |-> "number", b |-> FALSE, n |-> x, s |-> ""]

String(x) == [ty |-> "string", b |-> FALSE, n |-> 0, s |-> x]

Object(a, c, e) == [is_ai_generated |-> a, confidence_score |-> c, explanation |-> e]

NoObject == Object(Absent, Absent, Absent)

Fence == [t |-> "fence", v |-> NoObject]

Text == [t |-> "text", v |-> NoObject]

Array == [t |-> "array", v |-> NoObject]

Json(obj) == [t |-> "object", v |-> obj]

\* Confidence values the backend may put in a reply, in hundredths.
Confidences == {87, 150}

GoodObjects ==
    {Object(Bool(a), Number(c), String("Flat spectral artifacts detected")) :
        a \in BOOLEAN, c \in Confidences}

BadObjects ==
    {Object(Bool(TRUE), Absent, String("Flat spectral artifacts detected")),
     Object(Null, Number(87), String("Flat spectral artifacts detected"))}

TransportError == [kind |-> "error", content |-> <<>>]

Content(c) == [kind |-> "content", content |-> c]

NoReply == [kind |-> "none", content |-> <<>>]

Replies ==
    {TransportError, Content(<<Text>>), Content(<<Array>>)}
    \cup {Content(<<Json(o)>>) : o \in GoodObjects \cup BadObjects}
    \cup {Content(<<Fence, Json(o), Fence>>) : o \in GoodObjects}

(***************************************************************************)
(* detector.py                                                             *)
(***************************************************************************)
max_retries == 3

\* Mutant: Markdown fences around the document are stripped before parsing.
json_loads_StripFence(content) ==
    LET inner == SelectSeq(content, LAMBDA tok : tok.t # "fence") IN
    IF Len(inner) = 1 /\ inner[1].t \in {"object", "array"}
    THEN [ok |-> TRUE, data |-> inner[1]]
    ELSE [ok |-> FALSE, data |-> Text]

\* json.loads(content): a JSON document is exactly one JSON value.
json_loads(content) ==
    IF Len(content) = 1 /\ content[1].t \in {"object", "array"}
    THEN [ok |-> TRUE, data |-> content[1]]
    ELSE [ok |-> FALSE, data |-> Text]

\* DetectionResult(**data): data must be a mapping holding the three
\* required fields with their declared types.
DetectionResult(data) ==
    IF /\ data.t = "object"
       /\ data.v.is_ai_generated.ty = "bool"
       /\ data.v.confidence_score.ty = "number"
       /\ data.v.explanation.ty = "string"
    THEN [ok |-> TRUE, validated |-> data.v]
    ELSE [ok |-> FALSE, validated |-> NoObject]

\* Mutant: the two classification strings swapped.
Classification_Swapped(is_ai_generated) ==
    IF is_ai_generated THEN "HUMAN" ELSE "AI_GENERATED"

Classification(is_ai_generated) ==
    IF is_ai_generated THEN "AI_GENERATED" ELSE "HUMAN"

Result(c, s, e) == [classification |-> c, confidenceScore |-> s, explanation |-> e]

\* The dict returned from inside the try block.
BuildResult(validated) ==
    Result(Classification(validated.is_ai_generated.b),
           validated.confidence_score.n,
           validated.explanation.s)

\* Returned after the retry loop.
ExhaustedFallback ==
    Result("HUMAN", 0, "Analysis failed. Defaulting to Human.")

\* Mutant: one fallback shared by both failure paths.
ExtractionFallback_Shared == ExhaustedFallback

\* Returned when extract_features gave None.
ExtractionFallback ==
    Result("HUMAN", 0, "Feature extraction failed. Defaulting to Human.")

\* Placeholder where a pass of the loop returned nothing.
NoResult == Result("", 0, "")

\* One pass through the try block of the retry loop: the result returned
\* (ok), or an exception caught by `except Exception` (not ok).
TryAttempt(reply) ==
    IF reply.kind # "content"
    THEN [ok |-> FALSE, result |-> NoResult]
    ELSE LET parsed == json_loads(reply.content) IN
         IF ~parsed.ok
         THEN [ok |-> FALSE, result |-> NoResult]
         ELSE LET model == DetectionResult(parsed.data) IN
              IF ~model.ok
              THEN [ok |-> FALSE, result |-> NoResult]
              ELSE [ok |-> TRUE, result |-> BuildResult(model.validated)]

\* Mutant: an off-by-one loop bound, one pass too many.
LoopContinues_OffByOne(attempt) == attempt + 1 <= max_retries

\* `for attempt in range(self.max_retries)`: is there a pass after `attempt`?
LoopContinues(attempt) == attempt + 1 < max_retries

(***************************************************************************)
(* main.py: the endpoint                                                   *)
(***************************************************************************)
NoKey == "<None>"

server_api_key == "sk_test_123456789"

Mp3 == <<"m","p","3">>

\* Mutant: a missing header is let through.
KeyValid_AcceptsMissing(x_api_key) ==
    x_api_key = NoKey \/ x_api_key = server_api_key

\* x_api_key != server_api_key rejects; a missing header is None.
KeyValid(x_api_key) == x_api_key = server_api_key

FormatValid(audioFormat) == Lower(audioFormat) = Mp3

ErrorBody(message) == [status |-> "error", message |-> message]

SuccessBody(language, result) ==
    [status |-> "success",
     language |-> language,
     classification |-> result.classification,
     confidenceScore |-> result.confidenceScore,
     explanation |-> result.explanation]

NoBody == [status |-> "none"]

ValueError(msg) == [type |-> "ValueError", msg |-> msg]

\* The two except clauses of detect_voice.
HandleException(e) ==
    IF e.type = "ValueError"
    THEN ErrorBody(e.msg)
    ELSE ErrorBody(<<"Internal Server Error: ">> \o e.msg)

(***************************************************************************)
(* State.  The server runs the async handler detect_voice on one event     *)
(* loop; the handler has no await, so from its first statement to its      *)
(* return (blocking LLM calls and time.sleep included) it holds the loop.  *)
(* The rate limiter (10/minute per address) sits in front of the handler   *)
(* and is not reached by the requests considered here.                     *)
(***************************************************************************)
Reqs == {"r1", "r2"}

NoReq == "none"

VARIABLES
    pc,           \* per request: where it stands (see the actions)
    loop,         \* the request whose handler occupies the event loop
    x_api_key,    \* per request: the x-api-key header
    body,         \* per request: the VoiceDetectionRequest
    audio_bytes,  \* per request: the bytes returned by decode_audio
    clip_ms,      \* per request: length of the trimmed clip
    attempt,      \* per request: the loop variable of the retry loop
    content,      \* per request: the reply of the latest LLM call
    log,          \* per request: the calls made for it, in order
    response      \* per request: the body returned

vars == <<pc, loop, x_api_key, body, audio_bytes, clip_ms, attempt, content,
          log, response>>

NoRequestBody == [language |-> "", audioFormat |-> <<>>, audioBase64 |-> <<>>]

\* Inputs of the requests.
Keys == {NoKey, server_api_key, "sk_wrong"}

Formats == {Mp3, <<"M","P","3">>, <<"w","a","v">>}

Languages == {"English"}

Audios ==
    {<<"Q","U","J","D">>,
     <<"d","a","t","a",":",";">> \o Base64Marker \o <<"Q","Q","=","=">>,
     <<"Q">>}

\* Lengths (ms) of the clips an upload may hold.
Durations == {20000, 45000}

Init ==
    /\ pc = [r \in Reqs |-> "idle"]
    /\ loop = NoReq
    /\ x_api_key = [r \in Reqs |-> NoKey]
    /\ body = [r \in Reqs |-> NoRequestBody]
    /\ audio_bytes = [r \in Reqs |-> <<>>]
    /\ clip_ms = [r \in Reqs |-> 0]
    /\ attempt = [r \in Reqs |-> 0]
    /\ content = [r \in Reqs |-> NoReply]
    /\ log = [r \in Reqs |-> <<>>]
    /\ response = [r \in Reqs |-> NoBody]

\* The handler returns `resp`: its locals are gone and the loop is free.
Return(r, resp) ==
    /\ pc' = [pc EXCEPT ![r] = "done"]
    /\ response' = [response EXCEPT ![r] = resp]
    /\ loop' = NoReq
    /\ audio_bytes' = [audio_bytes EXCEPT ![r] = <<>>]
    /\ clip_ms' = [clip_ms EXCEPT ![r] = 0]
    /\ attempt' = [attempt EXCEPT ![r] = 0]

\* A client posts a request; it waits for the event loop.
Receive(r) ==
    /\ pc[r] = "idle"
    /\ \E k \in Keys, f \in Formats, a \in Audios, l \in Languages :
         /\ x_api_key' = [x_api_key EXCEPT ![r] = k]
         /\ body' = [body EXCEPT ![r] =
                        [language |-> l, audioFormat |-> f, audioBase64 |-> a]]
    /\ pc' = [pc EXCEPT ![r] = "pending"]
    /\ UNCHANGED <<loop, audio_bytes, clip_ms, attempt, content, log, response>>

\* The event loop starts the handler: API key, then audio format.
Validate(r) ==
    /\ pc[r] = "pending"
    /\ loop = NoReq
    /\ IF ~KeyValid(x_api_key[r])
       THEN Return(r, ErrorBody(<<"Invalid API key">>))
       ELSE IF ~FormatValid(body[r].audioFormat)
       THEN Return(r, ErrorBody(<<"Only mp3 format is supported">>))
       ELSE /\ pc' = [pc EXCEPT ![r] = "decode"]
            /\ loop' = r
            /\ UNCHANGED <<audio_bytes, clip_ms, attempt, response>>
    /\ UNCHANGED <<x_api_key, body, content, log>>

\* audio_bytes = decode_audio(body.audioBase64)
DecodeAudio(r) ==
    /\ pc[r] = "decode"
    /\ loop = r
    /\ LET d == decode_audio(body[r].audioBase64) IN
       IF d.ok
       THEN /\ log' = [log EXCEPT ![r] = Append(@, "decode")]
            /\ audio_bytes' = [audio_bytes EXCEPT ![r] = d.bytes]
            /\ pc' = [pc EXCEPT ![r] = "trim"]
            /\ UNCHANGED <<loop, clip_ms, attempt, response>>
       ELSE /\ log' = [log EXCEPT ![r] = Append(@, "decode!")]
            /\ Return(r, HandleException(ValueError(d.error)))
    /\ UNCHANGED <<x_api_key, body, content>>

\* audio_bytes = trim_audio(audio_bytes, max_duration_ms=30000): pydub
\* reads the bytes as MP3 or fails.
TrimAudio(r) ==
    /\ pc[r] = "trim"
    /\ loop = r
    /\ \/ /\ log' = [log EXCEPT ![r] = Append(@, "trim!")]
          /\ Return(r, HandleException(
                          ValueError(TrimPrefix \o <<"decoding failed">>)))
       \/ \E ms \in Durations :
            /\ log' = [log EXCEPT ![r] = Append(@, "trim")]
            /\ clip_ms' = [clip_ms EXCEPT ![r] = TrimmedLength(ms)]
            /\ audio_bytes' = [audio_bytes EXCEPT ![r] = <<>>]
            /\ pc' = [pc EXCEPT ![r] = "analyze"]
            /\ UNCHANGED <<loop, attempt, response>>
    /\ UNCHANGED <<x_api_key, body, content>>

\* detector.analyze_audio is entered: extract_features yields the features
\* or None.
ExtractFeatures(r) ==
    /\ pc[r] = "analyze"
    /\ loop = r
    /\ \/ /\ log' = [log EXCEPT ![r] = @ \o <<"analyze", "extract!">>]
          /\ Return(r, SuccessBody(body[r].language, ExtractionFallback))
       \/ /\ log' = [log EXCEPT ![r] = Append(@, "analyze")]
          /\ pc' = [pc EXCEPT ![r] = "llm"]
          /\ attempt' = [attempt EXCEPT ![r] = 0]
          /\ UNCHANGED <<loop, audio_bytes, clip_ms, response>>
    /\ UNCHANGED <<x_api_key, body, content>>

\* The reply is a bare JSON object that conforms to the schema.  The log
\* keeps this much of every reply.
SchemaConforming(obj) ==
    /\ obj.is_ai_generated.ty = "bool"
    /\ obj.confidence_score.ty = "number"
    /\ obj.explanation.ty = "string"

ValidReply(reply) ==
    /\ reply.kind = "content"
    /\ Len(reply.content) = 1
    /\ reply.content[1].t = "object"
    /\ SchemaConforming(reply.content[1].v)

\* One pass of the retry loop: client.chat.completions.create, then the
\* parsing and validation of the reply.
LLMAttempt(r) ==
    /\ pc[r] = "llm"
    /\ loop = r
    /\ \E reply \in Replies :
         /\ content' = [content EXCEPT ![r] = reply]
         /\ log' = [log EXCEPT ![r] =
                       Append(@, IF ValidReply(reply) THEN "call:valid"
                                                      ELSE "call:invalid")]
         /\ LET t == TryAttempt(reply) IN
            IF t.ok
            THEN Return(r, SuccessBody(body[r].language, t.result))
            ELSE /\ pc' = [pc EXCEPT ![r] = "sleep"]
                 /\ UNCHANGED <<loop, audio_bytes, clip_ms, attempt, response>>
    /\ UNCHANGED <<x_api_key, body>>

\* Mutant: after the last failed pass the exception escapes analyze_audio
\* and reaches the endpoint's `except Exception`.
Backoff_Reraise(r) ==
    /\ pc[r] = "sleep"
    /\ loop = r
    /\ log' = [log EXCEPT ![r] = Append(@, "sleep")]
    /\ IF LoopContinues(attempt[r])
       THEN /\ attempt' = [attempt EXCEPT ![r] = @ + 1]
            /\ pc' = [pc EXCEPT ![r] = "llm"]
            /\ UNCHANGED <<loop, audio_bytes, clip_ms, response>>
       ELSE Return(r, HandleException(
                         [type |-> "RuntimeError", msg |-> <<"analysis failed">>]))
    /\ UNCHANGED <<x_api_key, body, content>>

\* The except clause: time.sleep(1), then the next pass of the loop or,
\* after the last one, the fallback.
Backoff(r) ==
    /\ pc[r] = "sleep"
    /\ loop = r
    /\ log' = [log EXCEPT ![r] = Append(@, "sleep")]
    /\ IF LoopContinues(attempt[r])
       THEN /\ attempt' = [attempt EXCEPT ![r] = @ + 1]
            /\ pc' = [pc EXCEPT ![r] = "llm"]
            /\ UNCHANGED <<loop, audio_bytes, clip_ms, response>>
       ELSE Return(r, SuccessBody(body[r].language, ExhaustedFallback))
    /\ UNCHANGED <<x_api_key, body, content>>

Next ==
    \E r \in Reqs :
        \/ Receive(r)
        \/ Validate(r)
        \/ DecodeAudio(r)
        \/ TrimAudio(r)
        \/ ExtractFeatures(r)
        \/ LLMAttempt(r)
        \/ Backoff(r)

Spec == Init /\ [][Next]_vars

(***************************************************************************)
(* The decoder on its own: one request stands at the decode step with an   *)
(* audioBase64 assembled from at most MaxParts pieces.                     *)
(***************************************************************************)
Pieces ==
    {Base64Marker,
     <<"Q","U","J","D">>,
     <<"Q","Q","=","=">>,
     <<"d","a","t","a",":",";">>,
     <<"Q">>,
     <<"!">>}

RECURSIVE Flatten(_)
Flatten(ss) == IF ss = <<>> THEN <<>> ELSE Head(ss) \o Flatten(Tail(ss))

DecodeInputs ==
    {Flatten(ps) : ps \in UNION {[1..n -> Pieces] : n \in 0..MaxParts}}

InitDecode ==
    /\ pc = [r \in Reqs |-> IF r = "r1" THEN "decode" ELSE "idle"]
    /\ loop = "r1"
    /\ x_api_key = [r \in Reqs |-> IF r = "r1" THEN server_api_key ELSE NoKey]
    /\ \E a \in DecodeInputs :
         body = [r \in Reqs |->
                    IF r = "r1"
                    THEN [language |-> "English", audioFormat |-> Mp3,
                          audioBase64 |-> a]
                    ELSE NoRequestBody]
    /\ audio_bytes = [r \in Reqs |-> <<>>]
    /\ clip_ms = [r \in Reqs |-> 0]
    /\ attempt = [r \in Reqs |-> 0]
    /\ content = [r \in Reqs |-> NoReply]
    /\ log = [r \in Reqs |-> <<>>]
    /\ response = [r \in Reqs |-> NoBody]

NextDecode == \E r \in Reqs : DecodeAudio(r)

SpecDecode == InitDecode /\ [][NextDecode]_vars

(***************************************************************************)
(* Vocabulary of the properties.                                           *)
(***************************************************************************)
IsCall(ev) == ev \in {"call:valid", "call:invalid"}

\* The LLM calls made for r, in order, and the number of backoff waits.
LLMCalls(r) == SelectSeq(log[r], IsCall)

Waits(r) == Len(SelectSeq(log[r], LAMBDA ev : ev = "sleep"))

Logged(r, ev) == \E i \in 1..Len(log[r]) : log[r][i] = ev

Arrived(r) == pc[r] # "idle"

KeyBad(r) == x_api_key[r] = NoKey \/ x_api_key[r] # "sk_test_123456789"

Mp3Spellings == {<<m, p, "3">> : m \in {"m", "M"}, p \in {"p", "P"}}

FormatBad(r) == body[r].audioFormat \notin Mp3Spellings

\* The first valid reply of r arrived on attempt k.
FirstValidAt(r, k) ==
    /\ k <= Len(LLMCalls(r))
    /\ LLMCalls(r)[k] = "call:valid"
    /\ \A j \in 1..(k - 1) : LLMCalls(r)[j] = "call:invalid"

AllCallsFailed(r) ==
    /\ Len(LLMCalls(r)) >= 1
    /\ \A j \in 1..Len(LLMCalls(r)) : LLMCalls(r)[j] = "call:invalid"

\* The success body built from the object of the latest reply.
BodyFromReply(r) ==
    LET obj == content[r].content[1].v IN
    [status |-> "success",
     language |-> body[r].language,
     classification |-> IF obj.is_ai_generated.b THEN "AI_GENERATED" ELSE "HUMAN",
     confidenceScore |-> obj.confidence_score.n,
     explanation |-> obj.explanation.s]

FallbackText == "Analysis failed. Defaulting to Human."

FallbackBody(r) ==
    [status |-> "success",
     language |-> body[r].language,
     classification |-> "HUMAN",
     confidenceScore |-> 0,
     explanation |-> FallbackText]

(***************************************************************************)
(* C1: a request whose API key is absent or wrong, or whose audioFormat    *)
(* lower-cased is not "mp3", ends in an error body with none of            *)
(* decode_audio, trim_audio, analyze_audio called; a key failure is        *)
(* reported in preference to a format failure.                             *)
(***************************************************************************)
C1_RejectedBeforeProcessing ==
    \A r \in Reqs :
        (Arrived(r) /\ (KeyBad(r) \/ FormatBad(r))) =>
            /\ log[r] = <<>>
            /\ pc[r] \in {"pending", "done"}
            /\ pc[r] = "done" =>
                 /\ response[r].status = "error"
                 /\ response[r].message =
                      IF KeyBad(r) THEN <<"Invalid API key">>
                                   ELSE <<"Only mp3 format is supported">>

C1_Witness ==
    \E r \in Reqs :
        /\ pc[r] = "done"
        /\ KeyBad(r)
        /\ FormatBad(r)
        /\ response[r] = [status |-> "error", message |-> <<"Invalid API key">>]

(***************************************************************************)
(* C2: when the first valid, schema-conforming reply arrives on attempt k  *)
(* (1 <= k <= 3), exactly k LLM calls are made, none after the successful  *)
(* one, and the response is built from that reply, with classification     *)
(* AI_GENERATED for is_ai_generated true and HUMAN for false.              *)
(***************************************************************************)
C2_FirstValidReplyReturned ==
    \A r \in Reqs : \A k \in 1..3 :
        FirstValidAt(r, k) =>
            /\ Len(LLMCalls(r)) = k
            /\ log[r][Len(log[r])] = "call:valid"
            /\ pc[r] = "done"
            /\ response[r] = BodyFromReply(r)

C2_Witness ==
    \E r \in Reqs :
        /\ pc[r] = "done"
        /\ FirstValidAt(r, 3)
        /\ response[r].status = "success"
        /\ response[r].classification = "AI_GENERATED"

(***************************************************************************)
(* C3: when every LLM attempt fails, analyze_audio ends after exactly 3    *)
(* LLM calls (never a 4th), raises nothing and returns the fixed fallback  *)
(* HUMAN / 0.0 / fallback text.                                            *)
(***************************************************************************)
C3_ExhaustionGivesFallback ==
    \A r \in Reqs :
        /\ Len(LLMCalls(r)) <= 3
        /\ (pc[r] = "done" /\ AllCallsFailed(r)) =>
              /\ Len(LLMCalls(r)) = 3
              /\ response[r] = FallbackBody(r)

C3_Witness ==
    \E r \in Reqs :
        /\ pc[r] = "done"
        /\ AllCallsFailed(r)
        /\ content[r] = TransportError
        /\ response[r] = FallbackBody(r)

(***************************************************************************)
(* C4: every request ends in one body whose status is "success" or         *)
(* "error"; it is "success" exactly when the key is valid, the format is   *)
(* mp3 and decode_audio and trim_audio succeeded; a decode or trim failure *)
(* gives an error body with that error's message and the detector is not   *)
(* called; no outcome of the detector gives an error body.                 *)
(***************************************************************************)
C4_StatusReflectsInputStages ==
    \A r \in Reqs :
        /\ pc[r] = "done" <=> response[r] # NoBody
        /\ pc[r] = "done" =>
             /\ response[r].status \in {"success", "error"}
             /\ response[r].status = "success" <=>
                   /\ ~KeyBad(r)
                   /\ ~FormatBad(r)
                   /\ Logged(r, "decode")
                   /\ Logged(r, "trim")
             /\ Logged(r, "decode!") =>
                   /\ response[r] =
                        [status |-> "error",
                         message |-> <<"Invalid Base64 audio data: ">>
                                     \o b64decode(StripHeader(body[r].audioBase64)).cause]
                   /\ ~Logged(r, "analyze")
             /\ Logged(r, "trim!") =>
                   /\ response[r].status = "error"
                   /\ response[r].message[1] = "Error trimming audio: "
                   /\ ~Logged(r, "analyze")
             /\ Logged(r, "analyze") => response[r].status = "success"

C4_Witness ==
    \E r, q \in Reqs :
        /\ pc[r] = "done"
        /\ AllCallsFailed(r)
        /\ response[r].status = "success"
        /\ pc[q] = "done"
        /\ Logged(q, "trim!")
        /\ response[q].status = "error"

(***************************************************************************)
(* C5: on an input containing "base64," decode_audio strips everything up  *)
(* to and including the FIRST occurrence and base64-decodes the whole      *)
(* remainder; so for a valid payload p and a prefix ending in "base64,"    *)
(* decode_audio(prefix + p) equals decode_audio(p).                        *)
(***************************************************************************)
\* What follows the first occurrence of the marker.
AfterFirstMarker(s) ==
    SubSeq(s, FirstIndex(s, Base64Marker) + Len(Base64Marker), Len(s))

\* s is a prefix ending in the marker followed by a payload without it.
PayloadOf(s) == Split(s, Base64Marker)[Len(Split(s, Base64Marker))]

C5_WholeRemainderAfterFirstMarker ==
    \A r \in Reqs :
        (pc[r] \in {"trim", "done"} /\ Contains(body[r].audioBase64, Base64Marker)) =>
            LET whole == b64decode(AfterFirstMarker(body[r].audioBase64))
                p == PayloadOf(body[r].audioBase64)
            IN  /\ IF whole.ok
                   THEN pc[r] = "trim" /\ audio_bytes[r] = whole.bytes
                   ELSE pc[r] = "done" /\ response[r].status = "error"
                /\ (p # <<>> /\ b64decode(p).ok /\ \A i \in 1..Len(p) : IsB64Char(p[i]))
                      => (pc[r] = "trim" /\ audio_bytes[r] = decode_audio(p).bytes)

(***************************************************************************)
(* C6: in every result of analyze_audio, hence in every success response,  *)
(* confidenceScore lies in [0.0, 1.0] whatever the LLM reply contained.    *)
(***************************************************************************)
C6_ConfidenceInRange ==
    \A r \in Reqs :
        response[r].status = "success" =>
            (0 <= response[r].confidenceScore /\ response[r].confidenceScore <= 100)

(***************************************************************************)
(* C7: while one request is inside a backoff sleep or a blocking LLM call  *)
(* of analyze_audio, another request in flight can still make progress.    *)
(***************************************************************************)
C7_OthersProgressDuringBackoff ==
    \A r, q \in Reqs :
        (r # q /\ pc[r] \in {"llm", "sleep"} /\ pc[q] = "pending")
            => ENABLED Validate(q)

(***************************************************************************)
(* C8: a reply that is a schema-conforming JSON object wrapped in a        *)
(* Markdown code fence has the fence stripped, is parsed and validated,    *)
(* and that attempt succeeds with its result returned.                     *)
(***************************************************************************)
FencedConforming(reply) ==
    /\ reply.kind = "content"
    /\ Len(reply.content) = 3
    /\ reply.content[1].t = "fence"
    /\ reply.content[2].t = "object"
    /\ SchemaConforming(reply.content[2].v)
    /\ reply.content[3].t = "fence"

\* The latest LLM call of r has returned and been handled.
Handled(r) == pc[r] \in {"sleep", "done"} /\ Len(LLMCalls(r)) >= 1

BodyFromFencedReply(r) ==
    LET obj == content[r].content[2].v IN
    [status |-> "success",
     language |-> body[r].language,
     classification |-> IF obj.is_ai_generated.b THEN "AI_GENERATED" ELSE "HUMAN",
     confidenceScore |-> obj.confidence_score.n,
     explanation |-> obj.explanation.s]

C8_FencedReplyAccepted ==
    \A r \in Reqs :
        (Handled(r) /\ FencedConforming(content[r])) =>
            (pc[r] = "done" /\ response[r] = BodyFromFencedReply(r))

\* C8 as amended: a schema-conforming JSON object wrapped in a Markdown
\* code fence is not stripped: parsing the raw reply fails, the attempt
\* counts as failed and is followed by the backoff, and when it is the
\* third attempt the fallback is returned.
C8_FencedReplyIsFailedAttempt ==
    \A r \in Reqs :
        (Handled(r) /\ FencedConforming(content[r])) =>
            /\ log[r][Len(log[r])] \in {"call:invalid", "sleep"}
            /\ pc[r] = "done" =>
                 /\ Len(LLMCalls(r)) = 3
                 /\ response[r] = FallbackBody(r)

C8_Witness ==
    \E r \in Reqs :
        /\ pc[r] = "sleep"
        /\ Len(LLMCalls(r)) = 1
        /\ FencedConforming(content[r])

(***************************************************************************)
(* C9: when feature extraction fails, analyze_audio makes zero LLM calls   *)
(* and returns the same single fixed fallback that is returned when all 3  *)
(* LLM attempts fail: identical classification, confidenceScore and        *)
(* explanation.                                                            *)
(***************************************************************************)
C9_ExtractionFailureSameFallback ==
    \A r \in Reqs :
        (pc[r] = "done" /\ Logged(r, "extract!")) =>
            /\ Len(LLMCalls(r)) = 0
            /\ response[r] = FallbackBody(r)

\* C9 as amended: when feature extraction fails, analyze_audio makes zero
\* LLM calls and returns a fixed fallback with the classification HUMAN and
\* the confidenceScore 0.0 of the exhausted-attempts fallback, but with its
\* own explanation, "Feature extraction failed. Defaulting to Human.",
\* which is not the explanation of the exhausted-attempts fallback.
C9_ExtractionFailureOwnFallback ==
    \A r \in Reqs :
        (pc[r] = "done" /\ Logged(r, "extract!")) =>
            /\ Len(LLMCalls(r)) = 0
            /\ Waits(r) = 0
            /\ response[r] =
                 [FallbackBody(r) EXCEPT
                    !.explanation = "Feature extraction failed. Defaulting to Human."]
            /\ response[r].explanation # FallbackText

C9_Witness ==
    \E r \in Reqs :
        /\ pc[r] = "done"
        /\ log[r] = <<"decode", "trim", "analyze", "extract!">>
        /\ response[r].classification = "HUMAN"

(***************************************************************************)
(* C10: the backoff wait occurs only between a failed attempt and the next *)
(* attempt: every attempt after the first is preceded by exactly one wait, *)
(* every wait is followed by a further LLM attempt, and no wait happens    *)
(* after a successful attempt or after the final failed attempt.           *)
(***************************************************************************)
C10_BackoffOnlyBetweenAttempts ==
    \A r \in Reqs :
        LET L == log[r] IN
        /\ \A i \in 1..Len(L) :
             (IsCall(L[i]) /\ \E j \in 1..(i - 1) : IsCall(L[j])) =>
                 (L[i - 1] = "sleep" /\ L[i - 2] = "call:invalid")
        /\ \A i \in 1..Len(L) :
             L[i] = "sleep" => (i > 1 /\ L[i - 1] = "call:invalid")
        /\ pc[r] = "done" =>
             \A i \in 1..Len(L) :
                 L[i] = "sleep" => (i < Len(L) /\ IsCall(L[i + 1]))

====
